---- MODULE Spec2Model ----
(***************************************************************************)
(* TruthStream frontend (src/frontend/src/App.jsx, the App component of    *)
(* lines 416-940): the WebSocket transport (connectWebSocket and the mount *)
(* effect), the annotation engine (ws.onmessage: transcriptSegments and    *)
(* claims) and the capture / upload handlers that reset the engine.        *)
(*                                                                         *)
(* Texts are sequences of characters.  A claim id is a natural number; the *)
(* id 0 stands for the ids JavaScript treats as falsy (0, ""), NoClaim for *)
(* null.  Sockets are numbered in creation order.                          *)
(***************************************************************************)
EXTENDS Integers, Sequences, FiniteSets, TLC

\* ------------------------------------------------------------------ bounds
MaxSockets == 4     \* WebSocket objects created in one run
MaxMounts  == 2     \* times the mount effect runs (mount, cleanup, mount)
MaxMsgs    == 3     \* transcript / claim_detected / fact_check messages received
MaxResets  == 2     \* startRecording / handleFileUpload calls that pass their guards
MaxFrames  == 2     \* dataavailable events of the recorders
MaxNow     == 1     \* clock ticks (Date.now() values 0..MaxNow)

\* ------------------------------------------------------- program constants
ReconnectDelay == 3000

\* ------------------------------------------------------------ input sets
NoClaim == -1
ClaimIds == {0, 1}
TranscriptTexts == { <<"a">>, <<"a", "b">>, <<"a", "b", "a">> }
ClaimTexts == { <<>>, <<"a">>, <<"b">>, <<"b", "a">> }
Verdicts == {TRUE, FALSE}
Explanations == {"e"}
NoValue == "null"
Undefined == <<"undefined">>   \* the text of a message that has no text field
NoResult == "undefined"        \* the result of a fact_check that has no result field
ChunkSize == 8192       \* const chunkSize = 8192
\* file.size, in bytes: empty, below, at and above one and two chunks
FileSizes ==
    {0, 1, ChunkSize - 1, ChunkSize, ChunkSize + 1, 2 * ChunkSize, 2 * ChunkSize + 1}
SmallFiles == {0, 1}    \* the file sizes of at most one chunk

VARIABLES
    mounted,        \* the mount effect has run and its cleanup has not
    mounts,         \* number of times the mount effect has run
    sock,           \* socket number -> "none" | "connecting" | "open" | "closing" | "closed"
    nSock,          \* number of WebSocket objects created so far
    wsRef,          \* wsRef.current: a socket number, or 0 for null
    wsConnected,    \* the wsConnected state
    timers,         \* pending setTimeout(connectWebSocket, d) calls: their delays
    transcriptSegments,  \* sequence of [id, text, claimId]
    claims,         \* sequence of [id, text, status, isTrue, explanation]
    raw,            \* history: the transcript texts received since the last reset, concatenated
    nMsgs,          \* history: engine messages received
    lastMsg,        \* history: the last engine message received
    nResets,        \* history: startRecording / handleFileUpload calls past their guards
    now,            \* Date.now()
    isRecording,
    isProcessing,
    pendingStart,   \* startRecording calls suspended in getUserMedia
    recorders,      \* MediaRecorders that are running
    recRef,         \* mediaRecorderReference.current: "none" | "recording" | "inactive"
    meterLoops,     \* requestAnimationFrame loops of visualiseAudio that are running
    uploads,        \* handleFileUpload calls in their chunk loop: [left, sid], one entry per call
    recSids,        \* the running MediaRecorders, each named by the session id of its call
    nSid,           \* session ids generated so far; the next fresh one is nSid + 1
    nFrames,        \* history: dataavailable events so far
    sent,           \* history: every ws.send, in order: [sock, kind, sid]
    lastDevice,     \* history: how the last getUserMedia ended: "none" | "granted" | "denied"
    crashed         \* an updater threw while rendering: React has unmounted the tree

transportVars == <<mounted, mounts, sock, nSock, wsRef, wsConnected, timers, crashed>>
engineVars    == <<transcriptSegments, claims, raw, nMsgs, lastMsg>>
captureVars   == <<isRecording, isProcessing, pendingStart, recorders, recRef,
                   meterLoops, uploads, nResets, recSids, nSid, nFrames, sent,
                   lastDevice>>
vars == <<transportVars, engineVars, captureVars, now>>

SockIds == 1..MaxSockets

\* ------------------------------------------------------------ pure helpers

\* String.prototype.indexOf: the least 0-based position at which pat occurs
\* in text, or -1.
IndexOf(text, pat) ==
    LET hits == { i \in 0..(Len(text) - Len(pat)) :
                    SubSeq(text, i + 1, i + Len(pat)) = pat }
    IN  IF hits = {} THEN -1
        ELSE CHOOSE i \in hits : \A j \in hits : i <= j

\* String.prototype.substring(from, to), 0-based, to exclusive.
Substring(text, from, to) == SubSeq(text, from + 1, to)

\* JavaScript truthiness of a claimId: null, 0 and "" are falsy.
Truthy(claimId) == claimId # NoClaim /\ claimId # 0

\* The concatenation of the texts of a sequence of segments.
RECURSIVE ConcatText(_)
ConcatText(segs) ==
    IF segs = <<>> THEN <<>>
    ELSE Head(segs).text \o ConcatText(Tail(segs))

Segment(id, text, claimId) == [id |-> id, text |-> text, claimId |-> claimId]

\* Mutant of SplicePieces: the text after the match is not pushed.
SplicePiecesNoAfter(segment, claimId, claimText, claimIndex) ==
    LET before == Substring(segment.text, 0, claimIndex)
    IN  (IF before # <<>> THEN << Segment(<<now, "before", 0>>, before, NoClaim) >>
         ELSE <<>>)
        \o << Segment(<<now, "claim", 0>>, claimText, claimId) >>

\* Mutant of SplicePieces: the text before the match is not pushed.
SplicePiecesNoBefore(segment, claimId, claimText, claimIndex) ==
    LET after == Substring(segment.text, claimIndex + Len(claimText),
                           Len(segment.text))
    IN  << Segment(<<now, "claim", 0>>, claimText, claimId) >>
        \o (IF after # <<>> THEN << Segment(<<now, "after", 0>>, after, NoClaim) >>
            ELSE <<>>)

\* The before / claim / after pieces pushed for a match at claimIndex.
SplicePieces(segment, claimId, claimText, claimIndex) ==
    LET before == Substring(segment.text, 0, claimIndex)
        after  == Substring(segment.text, claimIndex + Len(claimText),
                            Len(segment.text))
    IN  (IF before # <<>> THEN << Segment(<<now, "before", 0>>, before, NoClaim) >>
         ELSE <<>>)
        \o << Segment(<<now, "claim", 0>>, claimText, claimId) >>
        \o (IF after # <<>> THEN << Segment(<<now, "after", 0>>, after, NoClaim) >>
            ELSE <<>>)

\* The eligibility test of the backward search, for the segment at index i.
Eligible(prev, i, claimText) ==
    IndexOf(prev[i].text, claimText) # -1 /\ ~Truthy(prev[i].claimId)

\* The index the backward loop stops at (1-based), or 0 when it runs out.
MatchIndex(prev, claimText) ==
    LET hits == { i \in 1..Len(prev) : Eligible(prev, i, claimText) }
    IN  IF hits = {} THEN 0
        ELSE CHOOSE i \in hits : \A j \in hits : j <= i

\* Mutant of SpliceClaim: the segments after the match are not pushed back.
SpliceClaimDropRest(prev, claimId, claimText) ==
    LET i == MatchIndex(prev, claimText)
    IN  IF i = 0 THEN prev
        ELSE SubSeq(prev, 1, i - 1)
             \o SplicePieces(prev[i], claimId, claimText,
                             IndexOf(prev[i].text, claimText))

\* The updater passed to setTranscriptSegments by claim_detected.
SpliceClaim(prev, claimId, claimText) ==
    LET i == MatchIndex(prev, claimText)
    IN  IF i = 0 THEN prev
        ELSE SubSeq(prev, 1, i - 1)
             \o SplicePieces(prev[i], claimId, claimText,
                             IndexOf(prev[i].text, claimText))
             \o SubSeq(prev, i + 1, Len(prev))

\* Mutant of RegisterClaim: an id that is already registered is skipped.
RegisterClaimOnce(prev, claimId, claimText) ==
    IF \E k \in 1..Len(prev) : prev[k].id = claimId THEN prev
    ELSE Append(prev, [id |-> claimId, text |-> claimText, status |-> "checking",
                       isTrue |-> NoValue, explanation |-> NoValue])

\* The updater passed to setClaims by claim_detected.
RegisterClaim(prev, claimId, claimText) ==
    Append(prev, [id |-> claimId, text |-> claimText, status |-> "checking",
                  isTrue |-> NoValue, explanation |-> NoValue])

\* Mutant of CompleteClaim: the id test is missing, every claim is completed.
CompleteClaimAll(prev, id, isTrue, explanation) ==
    [k \in 1..Len(prev) |->
        [prev[k] EXCEPT !.status = "complete",
                        !.isTrue = IF isTrue THEN "true" ELSE "false",
                        !.explanation = explanation]]

\* Mutant of CompleteClaim: a verdict for an id that is not registered adds a claim.
CompleteClaimUpsert(prev, id, isTrue, explanation) ==
    IF \E k \in 1..Len(prev) : prev[k].id = id
    THEN [k \in 1..Len(prev) |->
            IF prev[k].id = id
            THEN [prev[k] EXCEPT !.status = "complete",
                                 !.isTrue = IF isTrue THEN "true" ELSE "false",
                                 !.explanation = explanation]
            ELSE prev[k]]
    ELSE Append(prev, [id |-> id, text |-> <<>>, status |-> "complete",
                       isTrue |-> IF isTrue THEN "true" ELSE "false",
                       explanation |-> explanation])

\* Mutant of CompleteClaim: the status is set, the verdict and explanation are not.
CompleteClaimStatusOnly(prev, id, isTrue, explanation) ==
    [k \in 1..Len(prev) |->
        IF prev[k].id = id THEN [prev[k] EXCEPT !.status = "complete"]
        ELSE prev[k]]

\* Mutant of CompleteClaim: filter instead of map, the other claims are lost.
CompleteClaimFilter(prev, id, isTrue, explanation) ==
    LET keep == { k \in 1..Len(prev) : prev[k].id = id }
    IN  IF keep = {} THEN <<>>
        ELSE LET k == CHOOSE x \in keep : \A y \in keep : x <= y
             IN  << [prev[k] EXCEPT !.status = "complete",
                                    !.isTrue = IF isTrue THEN "true" ELSE "false",
                                    !.explanation = explanation] >>

\* The updater passed to setClaims by fact_check.
CompleteClaim(prev, id, isTrue, explanation) ==
    [k \in 1..Len(prev) |->
        IF prev[k].id = id
        THEN [prev[k] EXCEPT !.status = "complete",
                             !.isTrue = IF isTrue THEN "true" ELSE "false",
                             !.explanation = explanation]
        ELSE prev[k]]

\* claims.find(c => c.id === id): the first claim with that id, as
\* renderTranscript looks it up; a one-element set, or empty.
FindClaim(cs, id) ==
    LET hits == { k \in 1..Len(cs) : cs[k].id = id }
    IN  IF hits = {} THEN {}
        ELSE { cs[CHOOSE k \in hits : \A j \in hits : k <= j] }

\* ------------------------------------------------------------------- Init
Init ==
    /\ mounted = FALSE
    /\ mounts = 0
    /\ sock = [s \in SockIds |-> "none"]
    /\ nSock = 0
    /\ wsRef = 0
    /\ wsConnected = FALSE
    /\ timers = <<>>
    /\ transcriptSegments = <<>>
    /\ claims = <<>>
    /\ raw = <<>>
    /\ nMsgs = 0
    /\ lastMsg = [type |-> "none", id |-> NoClaim, text |-> <<>>,
                  isTrue |-> FALSE, explanation |-> NoValue]
    /\ nResets = 0
    /\ now = 0
    /\ isRecording = FALSE
    /\ isProcessing = FALSE
    /\ pendingStart = 0
    /\ recorders = 0
    /\ recRef = "none"
    /\ meterLoops = 0
    /\ uploads = <<>>
    /\ recSids = {}
    /\ nSid = 0
    /\ nFrames = 0
    /\ sent = <<>>
    /\ lastDevice = "none"
    /\ crashed = FALSE

\* -------------------------------------------------------------- transport

Live(s) == sock[s] \in {"connecting", "open"}

\* connectWebSocket: new WebSocket(...), handlers attached, wsRef.current = ws.
ConnectWebSocket ==
    /\ nSock < MaxSockets
    /\ nSock' = nSock + 1
    /\ sock' = [sock EXCEPT ![nSock + 1] = "connecting"]
    /\ wsRef' = nSock + 1

\* WebSocket.close() on the socket wsRef.current refers to.
CloseSocket(ss, s) ==
    IF ss[s] \in {"connecting", "open"} THEN [ss EXCEPT ![s] = "closing"] ELSE ss

\* The mount effect.
Mount ==
    /\ ~mounted
    /\ ~crashed
    /\ mounts < MaxMounts
    /\ mounted' = TRUE
    /\ mounts' = mounts + 1
    /\ ConnectWebSocket
    /\ UNCHANGED <<wsConnected, timers, crashed, engineVars, captureVars, now>>

\* cancelAnimationFrame(animationFrameReference.current)
CancelMeter(n) == IF n > 0 THEN n - 1 ELSE n

\* The cleanup of the mount effect.
Unmount ==
    /\ mounted
    /\ mounted' = FALSE
    /\ meterLoops' = CancelMeter(meterLoops)
    /\ sock' = IF wsRef # 0 THEN CloseSocket(sock, wsRef) ELSE sock
    /\ UNCHANGED <<mounts, nSock, wsRef, wsConnected, timers, crashed, engineVars,
                   now, isRecording, isProcessing, pendingStart, recorders, recRef,
                   uploads, nResets, recSids, nSid, nFrames, sent, lastDevice>>

\* ws.onopen
OnOpen(s) ==
    /\ sock[s] = "connecting"
    /\ sock' = [sock EXCEPT ![s] = "open"]
    /\ wsConnected' = TRUE
    /\ UNCHANGED <<mounted, mounts, nSock, wsRef, timers, crashed, engineVars,
                   captureVars, now>>

\* ws.onerror: the connection failed; its close event follows.
OnError(s) ==
    /\ Live(s)
    /\ sock' = [sock EXCEPT ![s] = "closing"]
    /\ wsConnected' = FALSE
    /\ UNCHANGED <<mounted, mounts, nSock, wsRef, timers, crashed, engineVars,
                   captureVars, now>>

\* The timers pending after ws.onclose has scheduled its reconnect.
ScheduleReconnect(ts) == Append(ts, ReconnectDelay)

\* ws.onclose
OnClose(s) ==
    /\ sock[s] \in {"connecting", "open", "closing"}
    /\ sock' = [sock EXCEPT ![s] = "closed"]
    /\ wsConnected' = FALSE
    /\ timers' = ScheduleReconnect(timers)
    /\ UNCHANGED <<mounted, mounts, nSock, wsRef, crashed, engineVars, captureVars,
                   now>>

\* A pending reconnect timer fires: connectWebSocket().
ReconnectTimer ==
    /\ timers # <<>>
    /\ timers' = Tail(timers)
    /\ ConnectWebSocket
    /\ UNCHANGED <<mounted, mounts, wsConnected, crashed, engineVars, captureVars,
                   now>>

\* ----------------------------------------------------------------- engine

\* A message is delivered on a socket that is open, to a component that is
\* still rendered.
CanReceive == ~crashed /\ \E s \in SockIds : sock[s] = "open"

\* The message object of an engine message, with the fields it does not have
\* filled in.
Msg(type, id, text, isTrue, explanation) ==
    [type |-> type, id |-> id, text |-> text, isTrue |-> isTrue,
     explanation |-> explanation]

\* Mutant of AppendTranscript: the new segment is put first.
PrependTranscript(prev, text, rnd) ==
    << Segment(<<now, "rand", rnd>>, text, NoClaim) >> \o prev

\* The updater passed to setTranscriptSegments by transcript; rnd is the
\* value Math.random() returns.
AppendTranscript(prev, text, rnd) ==
    Append(prev, Segment(<<now, "rand", rnd>>, text, NoClaim))

\* ws.onmessage, data.type === 'transcript'
OnTranscript(text) ==
    /\ CanReceive
    /\ nMsgs < MaxMsgs
    /\ transcriptSegments' = AppendTranscript(transcriptSegments, text, nMsgs + 1)
    /\ raw' = raw \o text
    /\ nMsgs' = nMsgs + 1
    /\ lastMsg' = Msg("transcript", NoClaim, text, FALSE, NoValue)
    /\ UNCHANGED <<claims, transportVars, captureVars, now>>

\* segment.text.indexOf throws in the backward search: the loop reaches a
\* segment whose text is undefined before it finds a match.
LoopThrows(prev, claimText) ==
    \E i \in 1..Len(prev) :
        /\ prev[i].text = Undefined
        /\ \A j \in (i + 1)..Len(prev) : ~Eligible(prev, j, claimText)

\* Mutant of OnClaimDetected: the claim is appended to the claims the closure
\* of ws.onmessage captured when the socket was created, not to prev.
OnClaimDetectedStale(claimId, claimText) ==
    /\ CanReceive
    /\ nMsgs < MaxMsgs
    /\ ~LoopThrows(transcriptSegments, claimText)
    /\ transcriptSegments' = SpliceClaim(transcriptSegments, claimId, claimText)
    /\ claims' = RegisterClaim(<<>>, claimId, claimText)
    /\ nMsgs' = nMsgs + 1
    /\ lastMsg' = Msg("claim_detected", claimId, claimText, FALSE, NoValue)
    /\ UNCHANGED <<raw, transportVars, captureVars, now>>

\* ws.onmessage, data.type === 'claim_detected'
OnClaimDetected(claimId, claimText) ==
    /\ CanReceive
    /\ nMsgs < MaxMsgs
    /\ ~LoopThrows(transcriptSegments, claimText)
    /\ transcriptSegments' = SpliceClaim(transcriptSegments, claimId, claimText)
    /\ claims' = RegisterClaim(claims, claimId, claimText)
    /\ nMsgs' = nMsgs + 1
    /\ lastMsg' = Msg("claim_detected", claimId, claimText, FALSE, NoValue)
    /\ UNCHANGED <<raw, transportVars, captureVars, now>>

\* ws.onmessage, data.type === 'fact_check'
OnFactCheck(id, isTrue, explanation) ==
    /\ CanReceive
    /\ nMsgs < MaxMsgs
    /\ claims' = CompleteClaim(claims, id, isTrue, explanation)
    /\ nMsgs' = nMsgs + 1
    /\ lastMsg' = Msg("fact_check", id, <<>>, isTrue, explanation)
    /\ UNCHANGED <<transcriptSegments, raw, transportVars, captureVars, now>>

\* ws.onmessage, data.type === 'processing_complete'
OnProcessingComplete ==
    /\ CanReceive
    /\ isProcessing
    /\ isProcessing' = FALSE
    /\ UNCHANGED <<transportVars, engineVars, now, isRecording, pendingStart,
                   recorders, recRef, meterLoops, uploads, nResets, recSids, nSid,
                   nFrames, sent, lastDevice>>

\* An updater throws while React renders: with no error boundary the tree is
\* unmounted, which runs the cleanup of the mount effect.
RenderThrows ==
    /\ crashed' = TRUE
    /\ mounted' = FALSE
    /\ meterLoops' = CancelMeter(meterLoops)
    /\ sock' = IF wsRef # 0 THEN CloseSocket(sock, wsRef) ELSE sock
    /\ UNCHANGED <<mounts, nSock, wsRef, wsConnected, timers, transcriptSegments,
                   claims, raw, now, isRecording, isProcessing, pendingStart,
                   recorders, recRef, uploads, nResets, recSids, nSid, nFrames,
                   sent, lastDevice>>

\* ws.onmessage, claim_detected, when the backward search throws.
OnClaimDetectedThrows(claimId, claimText) ==
    /\ CanReceive
    /\ nMsgs < MaxMsgs
    /\ LoopThrows(transcriptSegments, claimText)
    /\ nMsgs' = nMsgs + 1
    /\ lastMsg' = Msg("claim_detected", claimId, claimText, FALSE, NoValue)
    /\ RenderThrows

\* ws.onmessage for a payload JSON.parse rejects: the handler throws before
\* it reads the message.
OnUnparsable ==
    /\ CanReceive
    /\ nMsgs < MaxMsgs
    /\ nMsgs' = nMsgs + 1
    /\ lastMsg' = Msg("unparsable", NoClaim, <<>>, FALSE, NoValue)
    /\ UNCHANGED <<transcriptSegments, claims, raw, transportVars, captureVars, now>>

\* ws.onmessage for a type none of the branches tests for.
OnUnknownType ==
    /\ CanReceive
    /\ nMsgs < MaxMsgs
    /\ nMsgs' = nMsgs + 1
    /\ lastMsg' = Msg("unknown", NoClaim, <<>>, FALSE, NoValue)
    /\ UNCHANGED <<transcriptSegments, claims, raw, transportVars, captureVars, now>>

\* ws.onmessage, transcript without a text field: data.text is undefined.
OnTranscriptNoText ==
    /\ CanReceive
    /\ nMsgs < MaxMsgs
    /\ transcriptSegments' = AppendTranscript(transcriptSegments, Undefined, nMsgs + 1)
    /\ nMsgs' = nMsgs + 1
    /\ lastMsg' = Msg("transcript", NoClaim, Undefined, FALSE, NoValue)
    /\ UNCHANGED <<claims, raw, transportVars, captureVars, now>>

\* ws.onmessage, claim_detected without a claim field: data.claim is
\* undefined, indexOf searches for "undefined" and finds it in no text.
OnClaimDetectedNoText(claimId) ==
    /\ CanReceive
    /\ nMsgs < MaxMsgs
    /\ nMsgs' = nMsgs + 1
    /\ lastMsg' = Msg("claim_detected", claimId, Undefined, FALSE, NoValue)
    /\ IF \E i \in 1..Len(transcriptSegments) : transcriptSegments[i].text = Undefined
       THEN RenderThrows
       ELSE /\ claims' = RegisterClaim(claims, claimId, Undefined)
            /\ UNCHANGED <<transcriptSegments, raw, transportVars, captureVars, now>>

\* ws.onmessage, fact_check without a result field: data.result.isTrue
\* throws in the updater when a claim has the id.
OnFactCheckNoResult(id) ==
    /\ CanReceive
    /\ nMsgs < MaxMsgs
    /\ nMsgs' = nMsgs + 1
    /\ lastMsg' = Msg("fact_check", id, <<>>, FALSE, NoResult)
    /\ IF \E k \in 1..Len(claims) : claims[k].id = id
       THEN RenderThrows
       ELSE UNCHANGED <<transcriptSegments, claims, raw, transportVars,
                        captureVars, now>>

\* Date.now() advances.
Tick ==
    /\ now < MaxNow
    /\ now' = now + 1
    /\ UNCHANGED <<transportVars, engineVars, captureVars>>

\* ------------------------------------------------------ capture and upload

\* Mutant of ResetEngine: only the claims are cleared.
ResetClaimsOnly ==
    /\ transcriptSegments' = transcriptSegments
    /\ claims' = <<>>
    /\ raw' = raw

\* Mutant of ResetEngine: only the segments are cleared.
ResetSegmentsOnly ==
    /\ transcriptSegments' = <<>>
    /\ claims' = claims
    /\ raw' = <<>>

\* setTranscriptSegments([]); setClaims([])
ResetEngine ==
    /\ transcriptSegments' = <<>>
    /\ claims' = <<>>
    /\ raw' = <<>>

\* Mutant of RecorderMimeType: the recorder would deliver 16-bit PCM.
PcmMimeType == "audio/pcm;bits=16"

\* new MediaRecorder(stream, { mimeType: 'audio/webm;codecs=opus' })
RecorderMimeType == "audio/webm;codecs=opus"

\* JSON.stringify({ type: kind, session_id: sid, ... }): a control message.
ControlMsg(kind, sid) ==
    [kind |-> kind, sid |-> sid, from |-> 0, to |-> 0, fmt |-> "json"]

\* event.data of the recorder r: a blob in the recorder's container format,
\* handed to the socket as it is.
AudioBlob(r) ==
    [kind |-> "audio", sid |-> r, from |-> 0, to |-> 0, fmt |-> RecorderMimeType]

\* await file.slice(from, from + chunkSize).arrayBuffer(): the bytes
\* [from, to) of the file of upload sid; slice clamps its end to file.size.
FileSlice(sid, from, size) ==
    [kind |-> "chunk", sid |-> sid, from |-> from,
     to |-> IF from + ChunkSize < size THEN from + ChunkSize ELSE size,
     fmt |-> "bytes"]

\* Mutant of SendIfOpen: the readyState test is missing.
SendUnchecked(log, m) ==
    IF wsRef # 0
    THEN Append(log, [sock |-> wsRef, kind |-> m.kind, sid |-> m.sid,
                      from |-> m.from, to |-> m.to, fmt |-> m.fmt])
    ELSE log

\* if (wsRef.current?.readyState === WebSocket.OPEN) wsRef.current.send(m):
\* the log of sends after it.
SendIfOpen(log, m) ==
    IF wsRef # 0 /\ sock[wsRef] = "open"
    THEN Append(log, [sock |-> wsRef, kind |-> m.kind, sid |-> m.sid,
                      from |-> m.from, to |-> m.to, fmt |-> m.fmt])
    ELSE log

\* The Start Recording button is enabled and shows "start".
StartEnabled == mounted /\ wsConnected /\ ~isProcessing /\ ~isRecording

\* startRecording up to its await of getUserMedia.
StartRecording ==
    /\ StartEnabled
    /\ wsConnected
    /\ nResets < MaxResets
    /\ nResets' = nResets + 1
    /\ ResetEngine
    /\ pendingStart' = pendingStart + 1
    /\ UNCHANGED <<transportVars, nMsgs, lastMsg, now, isRecording, isProcessing,
                   recorders, recRef, meterLoops, uploads, recSids, nSid, nFrames,
                   sent, lastDevice>>

\* getUserMedia resolves: visualiseAudio(), the session id is generated and
\* sent, the recorder is started.
DeviceGranted ==
    /\ pendingStart > 0
    /\ pendingStart' = pendingStart - 1
    /\ meterLoops' = meterLoops + 1
    /\ nSid' = nSid + 1
    /\ sent' = SendIfOpen(sent, ControlMsg("start_recording", nSid + 1))
    /\ recorders' = recorders + 1
    /\ recSids' = recSids \cup {nSid + 1}
    /\ recRef' = "recording"
    /\ isRecording' = TRUE
    /\ lastDevice' = "granted"
    /\ UNCHANGED <<transportVars, engineVars, now, isProcessing, uploads, nResets,
                   nFrames>>

\* Mutant of DeviceDenied: the level meter is started before the device is
\* awaited and is left running.
DeviceDeniedMeterRunning ==
    /\ pendingStart > 0
    /\ pendingStart' = pendingStart - 1
    /\ meterLoops' = meterLoops + 1
    /\ lastDevice' = "denied"
    /\ UNCHANGED <<transportVars, engineVars, now, isRecording, isProcessing,
                   recorders, recRef, uploads, nResets, recSids, nSid, nFrames,
                   sent>>

\* getUserMedia rejects: the catch block.
DeviceDenied ==
    /\ pendingStart > 0
    /\ pendingStart' = pendingStart - 1
    /\ lastDevice' = "denied"
    /\ UNCHANGED <<transportVars, engineVars, now, isRecording, isProcessing,
                   recorders, recRef, meterLoops, uploads, nResets, recSids, nSid,
                   nFrames, sent>>

\* mediaRecorder.ondataavailable of the running recorder r, with data.
DataAvailable(r) ==
    /\ r \in recSids
    /\ nFrames < MaxFrames
    /\ nFrames' = nFrames + 1
    /\ sent' = SendIfOpen(sent, AudioBlob(r))
    /\ UNCHANGED <<transportVars, engineVars, now, isRecording, isProcessing,
                   pendingStart, recorders, recRef, meterLoops, uploads, nResets,
                   recSids, nSid, lastDevice>>

\* The recorder mediaRecorderReference.current refers to while it runs: the
\* one started last.
RefRecorder == CHOOSE r \in recSids : \A q \in recSids : q <= r

\* stopRecording
StopRecording ==
    /\ mounted /\ wsConnected /\ ~isProcessing /\ isRecording
    /\ recRef = "recording"
    /\ recRef' = "inactive"
    /\ recorders' = recorders - 1
    /\ recSids' = recSids \ {RefRecorder}
    /\ isRecording' = FALSE
    /\ isProcessing' = TRUE
    /\ meterLoops' = CancelMeter(meterLoops)
    /\ sent' = SendIfOpen(sent, ControlMsg("stop_recording", 0))
    /\ UNCHANGED <<transportVars, engineVars, now, pendingStart, uploads, nResets,
                   nSid, nFrames, lastDevice>>

\* The Upload button is enabled.
UploadEnabled == mounted /\ wsConnected /\ ~isProcessing /\ ~isRecording

\* handleFileUpload, for an audio file of n bytes, up to its first await.
HandleFileUpload(n) ==
    /\ UploadEnabled
    /\ wsConnected
    /\ nResets < MaxResets
    /\ nResets' = nResets + 1
    /\ isProcessing' = TRUE
    /\ ResetEngine
    /\ nSid' = nSid + 1
    /\ sent' = SendIfOpen(sent, ControlMsg("upload_file", nSid + 1))
    /\ uploads' = Append(uploads, [size |-> n, offset |-> 0, sid |-> nSid + 1])
    /\ UNCHANGED <<transportVars, nMsgs, lastMsg, now, isRecording, pendingStart,
                   recorders, recRef, meterLoops, recSids, nFrames, lastDevice>>

\* Mutant of UploadChunk: the offset advances by one byte less than a chunk.
UploadChunkOverlaps(u) ==
    /\ u \in 1..Len(uploads)
    /\ uploads[u].offset < uploads[u].size
    /\ uploads' = [uploads EXCEPT ![u].offset = @ + ChunkSize - 1]
    /\ sent' = SendIfOpen(sent, FileSlice(uploads[u].sid, uploads[u].offset,
                                          uploads[u].size))
    /\ UNCHANGED <<transportVars, engineVars, now, isRecording, isProcessing,
                   pendingStart, recorders, recRef, meterLoops, nResets, recSids,
                   nSid, nFrames, lastDevice>>

\* One iteration of the loop while (offset < file.size) of the upload at
\* position u: slice, send if open, offset += chunkSize.
UploadChunk(u) ==
    /\ u \in 1..Len(uploads)
    /\ uploads[u].offset < uploads[u].size
    /\ uploads' = [uploads EXCEPT ![u].offset = @ + ChunkSize]
    /\ sent' = SendIfOpen(sent, FileSlice(uploads[u].sid, uploads[u].offset,
                                          uploads[u].size))
    /\ UNCHANGED <<transportVars, engineVars, now, isRecording, isProcessing,
                   pendingStart, recorders, recRef, meterLoops, nResets, recSids,
                   nSid, nFrames, lastDevice>>

\* The chunk loop of the upload at position u has ended.
UploadFinished(u) ==
    /\ u \in 1..Len(uploads)
    /\ uploads[u].offset >= uploads[u].size
    /\ uploads' = SubSeq(uploads, 1, u - 1) \o SubSeq(uploads, u + 1, Len(uploads))
    /\ isProcessing' = FALSE
    /\ UNCHANGED <<transportVars, engineVars, now, isRecording, pendingStart,
                   recorders, recRef, meterLoops, nResets, recSids, nSid, nFrames,
                   sent, lastDevice>>

\* ------------------------------------------------------------ specifications

TransportStep ==
    \/ Mount
    \/ Unmount
    \/ \E s \in SockIds : OnOpen(s)
    \/ \E s \in SockIds : OnError(s)
    \/ \E s \in SockIds : OnClose(s)
    \/ ReconnectTimer

MessageStep ==
    \/ \E text \in TranscriptTexts : OnTranscript(text)
    \/ \E claimId \in ClaimIds, claimText \in ClaimTexts :
          OnClaimDetected(claimId, claimText)
    \/ \E id \in ClaimIds, isTrue \in Verdicts, explanation \in Explanations :
          OnFactCheck(id, isTrue, explanation)
    \/ OnProcessingComplete

CaptureStep ==
    \/ StartRecording
    \/ DeviceGranted
    \/ DeviceDenied
    \/ StopRecording
    \/ \E n \in FileSizes : HandleFileUpload(n)
    \/ \E u \in 1..Len(uploads) : UploadChunk(u)
    \/ \E u \in 1..Len(uploads) : UploadFinished(u)
    \/ \E r \in recSids : DataAvailable(r)

MalformedStep ==
    \/ OnUnparsable
    \/ OnUnknownType
    \/ OnTranscriptNoText
    \/ \E claimId \in ClaimIds : OnClaimDetectedNoText(claimId)
    \/ \E id \in ClaimIds : OnFactCheckNoResult(id)
    \/ \E claimId \in ClaimIds, claimText \in ClaimTexts :
          OnClaimDetectedThrows(claimId, claimText)

Next == TransportStep \/ MessageStep \/ MalformedStep \/ CaptureStep \/ Tick

Spec == Init /\ [][Next]_vars

\* The transport alone: the engine and capture handlers leave transportVars
\* unchanged, and no transport action reads engineVars or captureVars other
\* than meterLoops, which Unmount only decrements.
NextTransport == TransportStep

SpecTransport == Init /\ [][NextTransport]_vars

\* The engine on a connection that stays up, with the two handlers that
\* reset it taken up to their first await: the message handlers read of the
\* transport only CanReceive, and the resets only mounted and wsConnected.
NextEngine ==
    \/ Mount
    \/ \E s \in SockIds : OnOpen(s)
    \/ MessageStep
    \/ StartRecording
    \/ \E n \in SmallFiles : HandleFileUpload(n)

SpecEngine == Init /\ [][NextEngine]_vars

\* The engine with the recording handlers, on a connection that stays up.
NextSession ==
    \/ Mount
    \/ \E s \in SockIds : OnOpen(s)
    \/ MessageStep
    \/ StartRecording
    \/ DeviceGranted
    \/ StopRecording

SpecSession == Init /\ [][NextSession]_vars

\* The capture and upload handlers over a connection that opens, is lost and
\* is replaced by the reconnect timer, in a component that stays mounted; no
\* engine message is received, so the engine stays empty.
NextCapture ==
    \/ Mount
    \/ \E s \in SockIds : OnOpen(s)
    \/ \E s \in SockIds : OnClose(s)
    \/ ReconnectTimer
    \/ StartRecording
    \/ DeviceGranted
    \/ DeviceDenied
    \/ StopRecording
    \/ \E r \in recSids : DataAvailable(r)
    \/ \E n \in SmallFiles : HandleFileUpload(n)
    \/ \E u \in 1..Len(uploads) : UploadChunk(u)
    \/ \E u \in 1..Len(uploads) : UploadFinished(u)

SpecCapture == Init /\ [][NextCapture]_vars

\* The engine on a connection that stays up, receiving well-formed and
\* malformed messages.
NextInbound ==
    \/ Mount
    \/ \E s \in SockIds : OnOpen(s)
    \/ \E text \in TranscriptTexts : OnTranscript(text)
    \/ \E claimId \in ClaimIds, claimText \in ClaimTexts :
          OnClaimDetected(claimId, claimText)
    \/ \E id \in ClaimIds, isTrue \in Verdicts, explanation \in Explanations :
          OnFactCheck(id, isTrue, explanation)
    \/ MalformedStep

SpecInbound == Init /\ [][NextInbound]_vars

\* A recording over the whole transport, unmount and remount included.
NextTeardown ==
    \/ TransportStep
    \/ StartRecording
    \/ DeviceGranted

SpecTeardown == Init /\ [][NextTeardown]_vars

\* A step of the chunk loop of some upload: the awaited arrayBuffer() promise
\* or the awaited 50 ms timer has resolved.
UploadLoop ==
    \E u \in 1..Len(uploads) : UploadChunk(u) \/ UploadFinished(u)

\* File uploads over a connection that stays open, for the claims about the
\* chunk loop. The promises and the timer the loop awaits always resolve.
NextUpload ==
    \/ Mount
    \/ \E s \in SockIds : OnOpen(s)
    \/ \E n \in FileSizes : HandleFileUpload(n)
    \/ \E u \in 1..Len(uploads) : UploadChunk(u)
    \/ \E u \in 1..Len(uploads) : UploadFinished(u)

SpecUpload == Init /\ [][NextUpload]_vars /\ WF_vars(UploadLoop)

\* Recordings that are stopped, over a connection that can be lost and is
\* replaced, for the claims about what follows stopRecording. A connection
\* is lost only while the reconnect it schedules can still create one, so
\* that no behaviour ends for want of connections.
NextStop ==
    \/ Mount
    \/ \E s \in SockIds : OnOpen(s)
    \/ \E s \in SockIds : nSock < MaxSockets /\ OnClose(s)
    \/ ReconnectTimer
    \/ StartRecording
    \/ DeviceGranted
    \/ StopRecording
    \/ OnProcessingComplete

\* The reconnect timer fires once it is set, and processing_complete is
\* delivered if a connection stays open for it. Whether a connection opens
\* or closes is up to the network and the server.
SpecStop ==
    Init /\ [][NextStop]_vars /\ WF_vars(ReconnectTimer)
         /\ WF_vars(OnProcessingComplete)

\* ------------------------------------------------------------------ claims

SegIdx == 1..Len(transcriptSegments)
ClaimIdx == 1..Len(claims)

\* C1: the texts of the fragments, concatenated in sequence order, are the
\* transcript texts received since the last reset, concatenated in the order
\* they were received.
C1_FullText == ConcatText(transcriptSegments) = raw

\* C1 witness: after a reset, a transcript was received and a claim was
\* carved out of the middle of a fragment, leaving text on both sides.
C1_Witness ==
    /\ nResets > 0
    /\ raw # <<>>
    /\ \E i \in SegIdx :
          /\ 1 < i /\ i < Len(transcriptSegments)
          /\ transcriptSegments[i].claimId # NoClaim
          /\ transcriptSegments[i - 1].id[2] = "before"
          /\ transcriptSegments[i + 1].id[2] = "after"

\* C2: a claim id is carried by at most one fragment.
C2_OneFragmentPerClaimId ==
    \A i, j \in SegIdx :
        (transcriptSegments[i].claimId # NoClaim
         /\ transcriptSegments[i].claimId = transcriptSegments[j].claimId)
        => i = j

\* C3: the claim registry never holds two entries with the same claim id.
C3_OneEntryPerClaimId ==
    \A i, j \in ClaimIdx : claims[i].id = claims[j].id => i = j

\* C8: every claim id carried by a fragment has an entry in the claim
\* registry, after every message handler and every reset.
C8_FragmentClaimRegistered ==
    \A i \in SegIdx :
        transcriptSegments[i].claimId # NoClaim
        => \E k \in ClaimIdx : claims[k].id = transcriptSegments[i].claimId

\* C8 witness: after a reset, a fragment carries a claim id.
C8_Witness ==
    /\ nResets > 0
    /\ \E i \in SegIdx : transcriptSegments[i].claimId # NoClaim

\* C9: the text of a fragment that carries a claim id is the text of the
\* registry claim with that id (the one claims.find returns).
C9_FragmentTextIsClaimText ==
    \A i \in SegIdx :
        transcriptSegments[i].claimId # NoClaim
        => \A c \in FindClaim(claims, transcriptSegments[i].claimId) :
               c.text = transcriptSegments[i].text

\* The fragments a claim_detected for claimText may splice according to C10:
\* those with no claim id whose text contains claimText.
C10_Candidates(segs, claimText) ==
    { i \in 1..Len(segs) :
        segs[i].claimId = NoClaim /\ IndexOf(segs[i].text, claimText) # -1 }

\* segs2 is segs with the fragment at index i replaced by a run of pieces
\* that spell its text, of which the one starting at offset k is claimText
\* tagged claimId and is the only tagged one; every other fragment is kept.
C10_SplicedAt(segs, segs2, i, k, claimId, claimText) ==
    LET grow == Len(segs2) - Len(segs)
        mid  == SubSeq(segs2, i, i + grow)
    IN  /\ grow >= 0
        /\ SubSeq(segs2, 1, i - 1) = SubSeq(segs, 1, i - 1)
        /\ SubSeq(segs2, i + grow + 1, Len(segs2)) = SubSeq(segs, i + 1, Len(segs))
        /\ ConcatText(mid) = segs[i].text
        /\ \E m \in 1..Len(mid) :
              /\ mid[m].claimId = claimId
              /\ mid[m].text = claimText
              /\ Len(ConcatText(SubSeq(mid, 1, m - 1))) = k
              /\ \A n \in 1..Len(mid) : n # m => mid[n].claimId = NoClaim

\* C10: a claim_detected step (the one that registers a claim) whose text
\* occurs in some fragment with no claim id splices the highest-indexed such
\* fragment at the leftmost occurrence and touches nothing else.
C10_SplicesLastCandidateLeftmost ==
    [][ Len(claims') = Len(claims) + 1 =>
          LET claimId   == claims'[Len(claims')].id
              claimText == claims'[Len(claims')].text
              cand      == C10_Candidates(transcriptSegments, claimText)
          IN  cand # {} =>
                LET i == CHOOSE x \in cand : \A y \in cand : y <= x
                IN  C10_SplicedAt(transcriptSegments, transcriptSegments', i,
                                  IndexOf(transcriptSegments[i].text, claimText),
                                  claimId, claimText) ]_vars

\* C4: at most one connection is Connecting or Open at any time.
C4_AtMostOneLiveConnection ==
    Cardinality({ s \in SockIds : Live(s) }) <= 1

\* C5: once the cleanup of the mount effect has run, no connection is
\* created until the effect runs again.
C5_NoConnectAfterTeardown ==
    [][ (mounts > 0 /\ ~mounted /\ ~mounted') => nSock' = nSock ]_vars

\* C6: at most one reconnect timer is pending at any time.
C6_AtMostOneReconnectTimer == Len(timers) <= 1

\* The connection state of Section 3, read off the handle wsRef.current.
ConnState ==
    IF wsRef = 0 THEN "Idle"
    ELSE CASE sock[wsRef] = "connecting" -> "Connecting"
           [] sock[wsRef] = "open"       -> "Open"
           [] OTHER                      -> "Closed"

\* The moves of Idle -> Connecting -> Open -> Closed -> Connecting, a failed
\* attempt (Connecting -> Closed) included.
ConnMoves ==
    { <<"Idle", "Connecting">>, <<"Connecting", "Open">>, <<"Open", "Closed">>,
      <<"Connecting", "Closed">>, <<"Closed", "Connecting">> }

\* C7: while the engine is mounted, a close event schedules one reconnect
\* after ReconnectDelay, a pending reconnect makes a new attempt, and the
\* connection state only moves along Idle -> Connecting -> Open -> Closed ->
\* Connecting.
C7_ReconnectStateMachine ==
    [][ (mounted /\ mounted') =>
          /\ (\E s \in SockIds : sock[s] # "closed" /\ sock'[s] = "closed")
                => timers' = Append(timers, 3000)
          /\ Len(timers') < Len(timers) => nSock' = nSock + 1
          /\ (ConnState' # ConnState => <<ConnState, ConnState'>> \in ConnMoves)
      ]_vars

\* ------------------------------------------------- claims C11 to C20

\* The step handles an engine message of the given type.
MsgStep(type) == nMsgs' = nMsgs + 1 /\ lastMsg'.type = type

\* The <<text, claimId>> pairs of a sequence of segments.
TextAndClaim(segs) == [n \in 1..Len(segs) |-> <<segs[n].text, segs[n].claimId>>]

\* The <<text, claimId>> pairs C11 puts in place of a fragment whose text is
\* text, for a match of claimText at offset k.
C11_Pieces(text, k, claimId, claimText) ==
    LET before == SubSeq(text, 1, k)
        after  == SubSeq(text, k + Len(claimText) + 1, Len(text))
    IN  (IF before = <<>> THEN <<>> ELSE << <<before, NoClaim>> >>)
        \o << <<claimText, claimId>> >>
        \o (IF after = <<>> THEN <<>> ELSE << <<after, NoClaim>> >>)

\* C11: a claim_detected that changes the sequence replaces exactly one
\* fragment by before (if not empty), the claim fragment and after (if not
\* empty); the fragments before and after it are kept as they are, and the
\* length grows by 0, 1 or 2.
C11_SpliceFrame ==
    [][ (MsgStep("claim_detected") /\ transcriptSegments' # transcriptSegments) =>
          LET segs  == transcriptSegments
              segs2 == transcriptSegments'
              grow  == Len(segs2) - Len(segs)
          IN  /\ grow \in {0, 1, 2}
              /\ \E i \in 1..Len(segs) :
                    /\ SubSeq(segs2, 1, i - 1) = SubSeq(segs, 1, i - 1)
                    /\ SubSeq(segs2, i + grow + 1, Len(segs2))
                           = SubSeq(segs, i + 1, Len(segs))
                    /\ \E k \in 0..Len(segs[i].text) :
                          /\ SubSeq(segs[i].text, k + 1, k + Len(lastMsg'.text))
                                 = lastMsg'.text
                          /\ TextAndClaim(SubSeq(segs2, i, i + grow))
                                 = C11_Pieces(segs[i].text, k, lastMsg'.id,
                                              lastMsg'.text) ]_vars

\* C11 witness: the last message was a claim_detected that carved its claim
\* out of a fragment that is followed by a later transcript fragment.
C11_Witness ==
    /\ lastMsg.type = "claim_detected"
    /\ \E i \in SegIdx :
          /\ 1 < i /\ i < Len(transcriptSegments)
          /\ transcriptSegments[i].claimId = lastMsg.id
          /\ transcriptSegments[i].text = lastMsg.text
          /\ transcriptSegments[i].id[2] = "claim"
          /\ transcriptSegments[i - 1].id[2] = "before"
          /\ transcriptSegments[Len(transcriptSegments)].id[2] = "rand"

\* C12: a fragment that carries a claim id, whatever its value, is still in
\* the sequence after a claim_detected.
C12_TaggedFragmentKept ==
    [][ MsgStep("claim_detected") =>
          \A i \in SegIdx :
              transcriptSegments[i].claimId # NoClaim
              => \E j \in 1..Len(transcriptSegments') :
                     transcriptSegments'[j] = transcriptSegments[i] ]_vars

\* C13: a claim_detected whose text occurs in no fragment without a claim id
\* leaves the fragment sequence unchanged.
C13_NotFoundKeepsSequence ==
    [][ (MsgStep("claim_detected")
         /\ C10_Candidates(transcriptSegments, lastMsg'.text) = {})
        => transcriptSegments' = transcriptSegments ]_vars

\* C14: every claim_detected, spliced or not, appends to the registry a claim
\* with the id and text of the message, status checking and null verdict and
\* explanation.
C14_ClaimRegisteredChecking ==
    [][ MsgStep("claim_detected") =>
          claims' = Append(claims, [id |-> lastMsg'.id, text |-> lastMsg'.text,
                                    status |-> "checking", isTrue |-> NoValue,
                                    explanation |-> NoValue]) ]_vars

\* C14 witness: the last message was a claim_detected whose text was not
\* found, for an id that was registered before, and its claim is registered.
C14_Witness ==
    /\ lastMsg.type = "claim_detected"
    /\ \A i \in SegIdx : transcriptSegments[i].text # lastMsg.text
    /\ Len(claims) >= 2
    /\ claims[Len(claims)].id = lastMsg.id
    /\ claims[1].id = lastMsg.id

\* C15: a fact_check for a registered id completes the claims with that id
\* with the verdict and explanation of the message and leaves every other
\* claim and the fragment sequence unchanged.
C15_FactCheckCompletes ==
    [][ (MsgStep("fact_check") /\ \E k \in ClaimIdx : claims[k].id = lastMsg'.id) =>
          /\ transcriptSegments' = transcriptSegments
          /\ Len(claims') = Len(claims)
          /\ \A k \in ClaimIdx :
                IF claims[k].id = lastMsg'.id
                THEN /\ claims'[k].status = "complete"
                     /\ claims'[k].isTrue = (IF lastMsg'.isTrue THEN "true" ELSE "false")
                     /\ claims'[k].explanation = lastMsg'.explanation
                     /\ claims'[k].id = claims[k].id
                     /\ claims'[k].text = claims[k].text
                ELSE claims'[k] = claims[k] ]_vars

\* C15 witness: the last message was a fact_check; its claim is complete and
\* a claim with another id is still checking.
C15_Witness ==
    /\ lastMsg.type = "fact_check"
    /\ \E k, j \in ClaimIdx :
          /\ claims[k].id = lastMsg.id /\ claims[k].status = "complete"
          /\ claims[j].id # lastMsg.id /\ claims[j].status = "checking"

\* C16: a fact_check for an id that is not registered changes neither the
\* registry nor the fragment sequence.
C16_UnknownFactCheckIgnored ==
    [][ (MsgStep("fact_check") /\ ~\E k \in ClaimIdx : claims[k].id = lastMsg'.id) =>
          /\ claims' = claims
          /\ transcriptSegments' = transcriptSegments ]_vars

\* C16 witness: the last message was a fact_check for an id that is not
\* registered, received while another claim and a fragment were there.
C16_Witness ==
    /\ lastMsg.type = "fact_check"
    /\ claims # <<>>
    /\ transcriptSegments # <<>>
    /\ \A k \in ClaimIdx : claims[k].id # lastMsg.id

\* C17: a claim's verdict and explanation are set exactly when its status is
\* complete, and are both null while it is checking.
C17_VerdictIffComplete ==
    \A k \in ClaimIdx :
        IF claims[k].status = "complete"
        THEN claims[k].isTrue # NoValue /\ claims[k].explanation # NoValue
        ELSE /\ claims[k].status = "checking"
             /\ claims[k].isTrue = NoValue /\ claims[k].explanation = NoValue

\* C17 witness: one claim is complete and another is still checking.
C17_Witness ==
    \E k, j \in ClaimIdx :
        claims[k].status = "complete" /\ claims[j].status = "checking"

\* C18: between resets a claim that is complete stays as it is: no message
\* returns it to checking or changes its verdict or explanation.
C18_CompleteIsFinal ==
    [][ nResets' = nResets =>
          \A k \in ClaimIdx :
              claims[k].status = "complete"
              => (k <= Len(claims') /\ claims'[k] = claims[k]) ]_vars

\* C19: between resets no step removes a claim from the registry: every
\* claim keeps its place, id and text.
C19_RegistryOnlyGrows ==
    [][ nResets' = nResets =>
          /\ Len(claims') >= Len(claims)
          /\ \A k \in ClaimIdx :
                claims'[k].id = claims[k].id /\ claims'[k].text = claims[k].text ]_vars

\* C19 witness: a recording was stopped and a verdict received with claims in
\* the registry.
C19_Witness ==
    /\ recRef = "inactive"
    /\ isProcessing
    /\ lastMsg.type = "fact_check"
    /\ Len(claims) >= 2

\* C20: a transcript appends one fragment with a fresh id, the text of the
\* message and no claim id at the end of the sequence, and leaves the
\* existing fragments and the registry as they are.
C20_TranscriptAppendsOne ==
    [][ MsgStep("transcript") =>
          /\ claims' = claims
          /\ Len(transcriptSegments') = Len(transcriptSegments) + 1
          /\ SubSeq(transcriptSegments', 1, Len(transcriptSegments))
                 = transcriptSegments
          /\ LET new == transcriptSegments'[Len(transcriptSegments')]
             IN  /\ new.text = lastMsg'.text
                 /\ new.claimId = NoClaim
                 /\ \A i \in SegIdx : transcriptSegments[i].id # new.id ]_vars

\* C20 witness: the last message was a transcript, received with fragments
\* and a claim already there; its fragment is the last one.
C20_Witness ==
    /\ lastMsg.type = "transcript"
    /\ Len(transcriptSegments) >= 2
    /\ claims # <<>>
    /\ transcriptSegments[Len(transcriptSegments)].text = lastMsg.text
    /\ transcriptSegments[Len(transcriptSegments)].id[2] = "rand"

\* ------------------------------------------------- claims C21 to C30

\* C21: a reset empties the fragment sequence and the claim registry in the
\* same step, and no step empties or shortens one of them without leaving
\* both empty.
C21_ResetClearsBoth ==
    [][ /\ nResets' = nResets + 1
           => (transcriptSegments' = <<>> /\ claims' = <<>>)
        /\ (Len(transcriptSegments') < Len(transcriptSegments)
            \/ Len(claims') < Len(claims))
           => (transcriptSegments' = <<>> /\ claims' = <<>>) ]_vars

\* C21 witness: a claim_detected was the last message and a reset after it
\* has left both the sequence and the registry empty.
C21_Witness ==
    /\ nResets > 0
    /\ lastMsg.type = "claim_detected"
    /\ transcriptSegments = <<>>
    /\ claims = <<>>

\* The positions of the log of sends that hold binary data.
BinarySent(log) == { n \in 1..Len(log) : log[n].kind \in {"audio", "chunk"} }

\* C22: every message is sent on the connection wsRef refers to while it is
\* open; a step taken while it is not open sends nothing; and binary data is
\* sent only by the step that produces it, one frame or chunk at a time, so
\* nothing that was dropped is sent later.
C22_SendsOnlyWhenOpen ==
    [][ /\ SubSeq(sent', 1, Len(sent)) = sent
        /\ \A n \in (Len(sent) + 1)..Len(sent') :
              sent'[n].sock = wsRef /\ sock[sent'[n].sock] = "open"
        /\ (wsRef = 0 \/ sock[wsRef] # "open") => sent' = sent
        /\ \A n \in BinarySent(sent') \ BinarySent(sent) :
              /\ Len(sent') = Len(sent) + 1
              /\ sent'[n].kind = "audio"
                    => (nFrames' = nFrames + 1 /\ sent'[n].sid \in recSids)
              /\ sent'[n].kind = "chunk"
                    => \E u \in 1..Len(uploads) :
                          /\ uploads[u].sid = sent'[n].sid
                          /\ uploads[u].offset < uploads[u].size
                          /\ uploads' = [uploads EXCEPT ![u].offset = @ + ChunkSize] ]_vars

\* C22 witness: of two audio frames, one was produced while the connection
\* was not open and was dropped, and the other was sent on the connection
\* that replaced it.
C22_Witness ==
    /\ nFrames = 2
    /\ Cardinality(BinarySent(sent)) = 1
    /\ sent # <<>>
    /\ sent[Len(sent)].kind = "audio"
    /\ sent[Len(sent)].sock = 2

\* C23: no startRecording and no handleFileUpload passes its guard (and
\* resets the engine) while the connection wsRef refers to is not open.
C23_NoStartWhileNotOpen ==
    [][ nResets' # nResets => (wsRef # 0 /\ sock[wsRef] = "open") ]_vars

\* C24: when getUserMedia fails, the invocation starts nothing: isRecording,
\* the recorders, the recorder handle and the level-meter loops are as they
\* were and nothing is sent.
C24_DeniedStartsNothing ==
    [][ (lastDevice' = "denied" /\ pendingStart' = pendingStart - 1) =>
          /\ isRecording' = isRecording
          /\ recorders' = recorders
          /\ recSids' = recSids
          /\ recRef' = recRef
          /\ meterLoops' = meterLoops
          /\ sent' = sent ]_vars

\* C24 witness: the only startRecording so far has failed to get the device:
\* nothing records, no meter runs and nothing was sent.
C24_Witness ==
    /\ lastDevice = "denied"
    /\ nResets = 1
    /\ pendingStart = 0
    /\ ~isRecording
    /\ recorders = 0
    /\ meterLoops = 0
    /\ sent = <<>>

\* C25: after stopRecording no recorder and no level-meter loop is running,
\* and the connection is neither closed nor replaced.
C25_StopReleasesDevice ==
    [][ (recRef = "recording" /\ recRef' = "inactive") =>
          /\ recorders' = 0
          /\ meterLoops' = 0
          /\ sock' = sock
          /\ wsRef' = wsRef
          /\ nSock' = nSock ]_vars

\* C26: the cleanup of the mount effect leaves no recorder running.
C26_TeardownStopsRecorder ==
    [][ (mounted /\ ~mounted') => (recorders' = 0 /\ recSids' = {}) ]_vars

\* A message is malformed: it cannot be parsed, its type is unknown, or a
\* field its type requires is missing.
Malformed(m) ==
    \/ m.type \in {"unparsable", "unknown"}
    \/ m.type \in {"transcript", "claim_detected"} /\ m.text = Undefined
    \/ m.type = "fact_check" /\ m.explanation = NoResult

\* C27: a malformed message changes neither the fragment sequence nor the
\* claim registry, and no message stops the component from handling the
\* messages after it.
C27_MalformedDropped ==
    [][ /\ (nMsgs' = nMsgs + 1 /\ Malformed(lastMsg'))
           => (transcriptSegments' = transcriptSegments /\ claims' = claims)
        /\ ~crashed' ]_vars

\* The fragment sequence and the registry a message leaves, applied as a
\* whole to the ones it finds; rnd is its Math.random() value.
C28_Apply(m, segs, cs, rnd) ==
    CASE m.type = "transcript" ->
           << AppendTranscript(segs, m.text, rnd), cs >>
      [] m.type = "claim_detected" ->
           << SpliceClaim(segs, m.id, m.text), RegisterClaim(cs, m.id, m.text) >>
      [] m.type = "fact_check" ->
           << segs, CompleteClaim(cs, m.id, m.isTrue, m.explanation) >>
      [] OTHER -> << segs, cs >>

ControlSent(log, sid) ==
    { n \in 1..Len(log) :
        log[n].kind \in {"start_recording", "upload_file"} /\ log[n].sid = sid }

\* C30: every session id generated was sent in exactly one control message,
\* and every audio frame or file chunk sent comes after the control message of
\* its session on the same connection.
C30_ControlPrecedesData ==
    /\ \A sid \in 1..nSid : Cardinality(ControlSent(sent, sid)) = 1
    /\ \A n \in BinarySent(sent) :
          \E q \in ControlSent(sent, sent[n].sid) :
              q < n /\ sent[q].sock = sent[n].sock

\* ------------------------------------------------- claims C31 to C38

\* Math.ceil(n / chunkSize)
Ceil(n) == (n + ChunkSize - 1) \div ChunkSize

\* The file chunks of the upload sid in the log of sends, in the order sent.
ChunksSent(log, sid) ==
    SelectSeq(log, LAMBDA m : m.kind = "chunk" /\ m.sid = sid)

\* The chunks in cs are the first Len(cs) ranges [k*8192, min((k+1)*8192, n))
\* of a file of n bytes, in increasing order of k.
InOffsetOrder(cs, n) ==
    \A k \in 1..Len(cs) :
        /\ cs[k].from = (k - 1) * ChunkSize
        /\ cs[k].to = IF k * ChunkSize < n THEN k * ChunkSize ELSE n

\* C31: over a connection that stays open, an upload of n bytes has sent,
\* after i iterations of its loop, exactly the i ranges
\* [k*8192, min((k+1)*8192, n)), k < i, in increasing order and never makes
\* more than ceil(n/8192) iterations; its loop ends after exactly
\* ceil(n/8192) iterations, with the whole file sent, and the end clears
\* isProcessing; and every upload started ends.
C31_UploadSendsWholeFile ==
    /\ [](\A u \in 1..Len(uploads) :
            LET up == uploads[u]
                cs == ChunksSent(sent, up.sid)
            IN  /\ up.offset = Len(cs) * ChunkSize
                /\ Len(cs) <= Ceil(up.size)
                /\ InOffsetOrder(cs, up.size))
    /\ [][ \A u \in 1..Len(uploads) :
              (Len(uploads') < Len(uploads) /\ UploadFinished(u)) =>
                  LET up == uploads[u]
                      cs == ChunksSent(sent, up.sid)
                  IN  /\ Len(cs) = Ceil(up.size)
                      /\ (up.size > 0 => cs[Len(cs)].to = up.size)
                      /\ ~isProcessing' ]_vars
    /\ (uploads # <<>>) ~> (uploads = <<>>)

\* An upload of 8193 bytes has ended: two chunks were sent, the second one of
\* one byte, and isProcessing is cleared.
C31_Witness ==
    /\ uploads = <<>>
    /\ ~isProcessing
    /\ Len(sent) = 3
    /\ sent[1].kind = "upload_file"
    /\ sent[2].from = 0 /\ sent[2].to = ChunkSize
    /\ sent[3].from = ChunkSize /\ sent[3].to = ChunkSize + 1

\* C32: the ids of the fragments of the sequence are pairwise distinct, also
\* when several messages are handled within the same clock millisecond.
C32_FragmentIdsUnique ==
    \A i, j \in 1..Len(transcriptSegments) :
        i # j => transcriptSegments[i].id # transcriptSegments[j].id

\* The positions of the log of sends that hold an audio frame of a recording.
AudioSent(log) == { n \in 1..Len(log) : log[n].kind = "audio" }

C34_ConnectedOnlyWhileOpen ==
    (mounted /\ wsConnected) => (wsRef # 0 /\ sock[wsRef] = "open")

\* C35: at most one recorder runs, mediaRecorderReference.current refers to
\* it, and when the recorder the reference refers to is not recording (none
\* was started, or stopRecording has stopped it) no recorder runs and none
\* can send a frame.
C35_AtMostOneRecorder ==
    /\ recorders <= 1
    /\ Cardinality(recSids) = recorders
    /\ recRef # "recording" => recSids = {}

\* C36: isRecording is never set while the chunk loop of an upload runs, and
\* no audio frame of a recording is sent while the chunk loop of an upload
\* runs, so that the frames of the one never fall between the chunks of the
\* other.
C36_CaptureExcludesUpload ==
    /\ [](uploads # <<>> => ~isRecording)
    /\ [][ AudioSent(sent') # AudioSent(sent) => uploads = <<>> ]_vars

\* C37: whenever isProcessing is set (in these behaviours only stopRecording
\* sets it) it is eventually cleared again.
C37_ProcessingEventuallyCleared == isProcessing ~> ~isProcessing

\* C38: a claim_detected changes the fragment sequence if and only if some
\* single fragment without a claim id contains the claim text; in
\* particular a claim text that occurs in the raw transcript but in no single
\* fragment leaves the sequence unchanged.
C38_SplicesIffSingleFragment ==
    [][ MsgStep("claim_detected") =>
          LET found == C10_Candidates(transcriptSegments, lastMsg'.text) # {}
          IN  /\ (transcriptSegments' # transcriptSegments) <=> found
              /\ (IndexOf(raw, lastMsg'.text) # -1 /\ ~found)
                     => transcriptSegments' = transcriptSegments ]_vars
====
